---- MODULE Spec2Model ----
(***************************************************************************)
(* Model of the MCP configuration manager: the profile database            *)
(* (electron/database.ts), the main-process IPC handlers (electron/main.ts)*)
(* and the renderer flows that call them (ProfileManager.tsx,              *)
(* config-editor.tsx, RawConfigModal.tsx).                                 *)
(*                                                                         *)
(* A handler runs synchronously up to each await; every await is a point   *)
(* where the handler is suspended, so a handler is a sequence of steps     *)
(* and the in-flight request carries its position (pc) and its locals.     *)
(*                                                                         *)
(* Faults: a write to the file system (fs.writeFile, fs.mkdir) and a write *)
(* to the database may fail at any call; a read fails only when the file   *)
(* does not exist. The wall clock (Date) advances between requests, by any *)
(* amount including none, so two rows may carry the same created_at.       *)
(***************************************************************************)
EXTENDS Integers, Sequences, FiniteSets, TLC

\* ------------------------------------------------------------------ bounds
MaxClock == 2
MaxProfiles == 2
MaxRequests == 2
TicksPerSecond == 2

\* ------------------------------------------------------------ JSON texts
\* A text is [fmt, val]: fmt "bad" is text JSON.parse rejects; otherwise val
\* is the parsed value and fmt the layout of the text: "pretty" is exactly
\* the output of JSON.stringify(v, null, 2), "compact" the output of
\* JSON.stringify(v), "hand" any other layout of the same value.
\*
\* A value is [t, ms, extra]: t the type of the top-level value, ms its
\* mcpServers member and extra whether it has other top-level members.
\* ms is [k, keys]: k its type and keys what Object.keys returns for it.
MsAbsent == [k |-> "absent", keys |-> {}]
MsNull == [k |-> "null", keys |-> {}]
MsNum == [k |-> "num", keys |-> {}]
MsStr == [k |-> "str", keys |-> {"0"}]
MsArr(keys) == [k |-> "arr", keys |-> keys]
MsMap(names) == [k |-> "map", keys |-> names]

JNull == [t |-> "null", ms |-> MsAbsent, extra |-> FALSE]
JPrim == [t |-> "prim", ms |-> MsAbsent, extra |-> FALSE]
JArr == [t |-> "arr", ms |-> MsAbsent, extra |-> FALSE]
JObj(ms, extra) == [t |-> "obj", ms |-> ms, extra |-> extra]

NoVal == [t |-> "none", ms |-> MsAbsent, extra |-> FALSE]
BadText == [fmt |-> "bad", val |-> NoVal]
NoFile == [fmt |-> "nofile", val |-> NoVal]

\* The value has no member to lay out: JSON.stringify gives the same text
\* with and without indentation ("null", "5", "[]", "{}").
Flat(val) == \/ val.t \in {"null", "prim", "arr"}
             \/ val.t = "obj" /\ val.ms.k = "absent" /\ ~val.extra

\* JSON.stringify(value, null, indent)
JSON_stringify(val, indent) ==
  [fmt |-> IF Flat(val) \/ indent = 2 THEN "pretty" ELSE "compact", val |-> val]

\* JSON.parse succeeds on the text
Parses(text) == text.fmt \in {"pretty", "compact", "hand"}

\* JavaScript truthiness of the mcpServers member
Truthy(ms) == ms.k \in {"str", "num", "arr", "map"}
\* typeof ms === 'object'
TypeofObject(ms) == ms.k \in {"null", "arr", "map"}
\* Object.keys(ms).length
NumKeys(ms) == Cardinality(ms.keys)

\* Reading a property of null or undefined throws a TypeError.
CanReadProps(val) == val.t \in {"prim", "arr", "obj"}
\* Assigning a property on a primitive throws in strict mode (the compiled
\* main process is a module, hence strict); on an array or object it works.
CanSetProps(val) == val.t \in {"arr", "obj"}

\* value.mcpServers of a parsed value
ReadMs(val) == IF val.t = "obj" THEN val.ms ELSE MsAbsent

\* The in-memory object after `obj.mcpServers = ms`: an array keeps the
\* property in memory only (JSON.stringify of an array writes its elements).
WithMs(val, ms) == IF val.t = "obj" THEN [val EXCEPT !.ms = ms] ELSE val

EmptyDocText == JSON_stringify(JObj(MsMap({}), FALSE), 0)

\* ---------------------------------------------------------------- paths
DEFAULT_CONFIG_PATH == "claude_desktop_config.json"
OtherConfigPath == "other_config.json"
ConfigPaths == {DEFAULT_CONFIG_PATH, OtherConfigPath}
NoPath == ""
\* main.ts and database.ts name different default backup directories
DEFAULT_BACKUP_PATH == "app/config-backups"
defaultBackupPath == "userData/config-backups"
OtherBackupPath == "other-backups"
BackupPaths == {DEFAULT_BACKUP_PATH, defaultBackupPath, OtherBackupPath}
ClientPath == "claude.exe"
\* a settings field that is absent from settings.json
Unset == "<unset>"

ProfileNames == {"Default", "Work", "Copy"}
ServerMaps == {{}, {"b"}}

\* ---------------------------------------------------------------- state
VARIABLES
  profiles,        \* rows of table profiles
  lastProfileId,   \* sqlite_sequence of profiles (AUTOINCREMENT)
  configurations,  \* rows of table configurations, in rowid order
  lastConfigId,    \* sqlite_sequence of configurations
  files,           \* the configuration files on disk, by path
  backups,         \* the backup files on disk
  settings,        \* what loadSettings() returns (settings.json)
  now,             \* the wall clock, in milliseconds
  ui,              \* renderer state: selectedProfile, configPath, currentFilePath
  op,              \* the requests in flight: position and locals of each
  issued,          \* the number of requests issued so far
  clean,           \* every request so far was a switch or an editor save
                   \* (or a reload) and none has failed
  remixed,         \* history: <<source id, new id>> of each successful remix
  overlapped       \* history: <<id, id>> of each two switch requests of which
                   \* the second was issued while the first was in flight

vars == <<profiles, lastProfileId, configurations, lastConfigId, files, backups,
          settings, now, ui, op, issued, clean, remixed, overlapped>>

store == <<profiles, lastProfileId, configurations, lastConfigId>>
disk == <<files, backups, settings>>

\* ------------------------------------------------------- ProfileDatabase
\* A name column without the UNIQUE constraint: no name is ever refused.
NameNeverTaken(rows, name) == FALSE

\* createProfileStmt: INSERT INTO profiles; name is UNIQUE
NameTaken(rows, name) == \E p \in rows : p.name = name

NewProfile(id, name, configPath, backupPath, mcpClientPath, at) ==
  [id |-> id, name |-> name, config_path |-> configPath,
   backup_path |-> backupPath, mcp_client_path |-> mcpClientPath,
   created_at |-> at]

\* getProfile(id): the row, as a set of at most one element
getProfile(id) == {p \in profiles : p.id = id}

\* A configurations table without the foreign key: any profile_id goes in.
ForeignKeyOff(profileId) == TRUE

\* saveConfigurationStmt: the FOREIGN KEY (with PRAGMA foreign_keys = ON)
\* rejects a profile_id that names no profile
ForeignKeyOk(profileId) == getProfile(profileId) # {}

NewConfiguration(id, profileId, content, at) ==
  [id |-> id, profile_id |-> profileId, content |-> content, created_at |-> at]

\* A save that writes over the last row instead of inserting one.
ReplaceLastConfiguration(profileId, content) ==
  IF configurations = <<>>
  THEN <<NewConfiguration(lastConfigId + 1, profileId, content, now)>>
  ELSE [configurations EXCEPT ![Len(configurations)] =
          NewConfiguration(lastConfigId + 1, profileId, content, now)]

\* saveConfiguration(profileId, content): the table after the INSERT
saveConfiguration(profileId, content) ==
  Append(configurations,
         NewConfiguration(lastConfigId + 1, profileId, content, now))

ConfigurationsOf(profileId) ==
  {i \in 1..Len(configurations) : configurations[i].profile_id = profileId}

\* getLatestConfiguration(profileId): ORDER BY created_at DESC LIMIT 1.
\* Rows with equal created_at are in no specified order, so each of them
\* may be the one returned: the set of the contents the query may return
\* (empty when the profile has no configuration).
getLatestConfiguration(profileId) ==
  {configurations[i].content : i \in
     {j \in ConfigurationsOf(profileId) :
        \A k \in ConfigurationsOf(profileId) :
           configurations[k].created_at <= configurations[j].created_at}}

\* A delete without the cascade: the configurations stay.
RowsKeptOnDelete(id) == configurations

\* deleteProfile(id): DELETE FROM profiles, with ON DELETE CASCADE
RowsAfterDelete(id) == SelectSeq(configurations, LAMBDA c : c.profile_id # id)

\* getAllProfiles(): ORDER BY created_at DESC. The profiles that may come
\* first among those with the given config_path (ties are in no specified
\* order): what profiles.find(p => p.config_path === configPath) may return.
FirstProfileAt(configPath) ==
  {p \in profiles :
     /\ p.config_path = configPath
     /\ \A q \in profiles :
          q.config_path = configPath => q.created_at <= p.created_at}

\* ------------------------------------------------------------- settings
\* loadSettings() when settings.json is missing
DefaultSettings ==
  [configPath |-> DEFAULT_CONFIG_PATH, backupPath |-> DEFAULT_BACKUP_PATH,
   claudePath |-> ""]

\* saveSettings: { ...currentSettings, ...settings } written with
\* JSON.stringify, which leaves out a member whose value is undefined.
\* A field of `given` is "<absent>" when the caller's object lacks it, and
\* Unset when it is present with the value undefined.
Absent == "<absent>"
SettingsFields == {"configPath", "backupPath", "claudePath"}
\* A save that writes the given object alone: JSON.stringify(settings).
Overwrite(current, given) ==
  [f \in SettingsFields |-> IF given[f] = Absent THEN Unset ELSE given[f]]

Spread(current, given) ==
  [f \in SettingsFields |-> IF given[f] = Absent THEN current[f] ELSE given[f]]

\* an object with none of the three fields
NothingGiven == [f \in SettingsFields |-> Absent]

\* --------------------------------------------------------------- backup
\* `${name}_${timestamp}${ext}` in the backup directory: the timestamp is
\* toISOString() cut to the second
BackupSecond(t) == t \div TicksPerSecond
BackupFilePath(dir, filePath, t) ==
  [dir |-> dir, src |-> filePath, sec |-> BackupSecond(t)]

\* A backup directory that is fixed: the settings are not looked at.
BackupDirFixed == DEFAULT_BACKUP_PATH

\* settings.backupPath || DEFAULT_BACKUP_PATH
BackupDir == IF settings.backupPath \in {"", Unset}
             THEN DEFAULT_BACKUP_PATH ELSE settings.backupPath

\* A backup that keeps one copy per source file: the older copies of the
\* same source are removed.
BackupsKeepingLatest(path, content) ==
  {b \in backups : b.path.src # path.src} \cup {[path |-> path, content |-> content]}

\* fs.writeFile(backupFilePath, content): creates or overwrites
BackupsAfterWrite(path, content) ==
  {b \in backups : b.path # path} \cup {[path |-> path, content |-> content]}

\* fsSync.existsSync(path)
existsSync(path) == files[path] # NoFile

\* ----------------------------------------------------- requests in flight
MaxInFlight == 2
\* the requests issued in a run with overlapping requests
MaxOverlapRequests == 2
Slots == 1..MaxInFlight

NoProfile == NewProfile(0, "", NoPath, "", "", 0)
NoPre == [files |-> <<>>, settings |-> <<>>, configurations |-> <<>>,
          backups |-> {}, profiles |-> {}]

\* A request: kind and pc say which handler and where it is suspended;
\* id, name, profile, text, val, ms are its locals; ok and err its result;
\* wrote is the text it wrote to the live file (NoFile before the write);
\* backedUp says its createBackup call returned success, saved that its
\* saveConfiguration call returned; given is the argument of its
\* saveSettings call; auto says the renderer issued it by itself when it
\* started; pre is the state of the disk and the store when the request
\* was issued.
Idle ==
  [kind |-> "idle", pc |-> "idle", id |-> 0, name |-> "", profile |-> NoProfile,
   text |-> NoFile, val |-> NoVal, ms |-> MsAbsent, path |-> NoPath,
   ok |-> FALSE, err |-> "", wrote |-> NoFile, backedUp |-> FALSE,
   saved |-> FALSE, given |-> NothingGiven, auto |-> FALSE, pre |-> NoPre]

Pre == [files |-> files, settings |-> settings,
        configurations |-> configurations, backups |-> backups,
        profiles |-> profiles]

AllIdle == \A s \in Slots : op[s].pc = "idle"
\* requests are numbered in the order of issue: the lowest free slot
FreeSlot(s) == /\ op[s].pc = "idle"
               /\ \A r \in Slots : r < s => op[r].pc # "idle"

\* the application has started and the renderer has mounted: the slot holds
\* the start until initializeProfiles has run
Started(s) == op[s].kind = "start" /\ op[s].pc = "done"
\* a switch starts in a free slot, or in the slot of the start when
\* initializeProfiles issues it
MaySwitch(s) == op[s].pc = "idle" \/ Started(s)

Fail(r, err) == [r EXCEPT !.pc = "done", !.ok = FALSE, !.err = err]
Succeed(r) == [r EXCEPT !.pc = "done", !.ok = TRUE]

\* -------------------------------------------------- switch-profile (main)
\* the configObject.mcpServers the handler goes on with after
\* `if (!configObject.mcpServers || typeof ... !== 'object')`
NeedsEmptyMap(val) == ~Truthy(ReadMs(val)) \/ ~TypeofObject(ReadMs(val))
NormalizedMs(val) == IF NeedsEmptyMap(val) THEN MsMap({}) ELSE ReadMs(val)

\* What the synchronous head of the handler throws for a stored content,
\* "" when it throws nothing.
SwitchLoadError(content) ==
  IF content.fmt = "empty" THEN "No configuration found for this profile"
  ELSE IF ~Parses(content) THEN "Invalid configuration format"
  ELSE IF ~CanReadProps(content.val) THEN "TypeError"
  ELSE IF NeedsEmptyMap(content.val) /\ ~CanSetProps(content.val) THEN "TypeError"
  ELSE ""

\* A merge that always keeps the incoming servers (no preservation).
KeepIncoming(ms, existingContent) == ms

\* The try block that reads the existing file: the servers the handler
\* writes, given its own (ms) and the text of the existing file. A text
\* that does not parse, or parses to null, throws inside the try block and
\* leaves ms as it is.
PreserveExisting(ms, existingContent) ==
  IF /\ Parses(existingContent)
     /\ CanReadProps(existingContent.val)
     /\ Truthy(ReadMs(existingContent.val))
     /\ NumKeys(ReadMs(existingContent.val)) > 0
     /\ NumKeys(ms) = 0
  THEN ReadMs(existingContent.val)
  ELSE ms

\* A serialization without indentation: JSON.stringify(configObject).
CompactContent(val, ms) == JSON_stringify(WithMs(val, ms), 0)

\* finalContent = JSON.stringify(configObject, null, 2)
FinalContent(val, ms) == JSON_stringify(WithMs(val, ms), 2)

\* A saveSettings argument that leaves claudePath out when the profile has
\* none, so that the spread keeps the previous value.
SwitchSettingsWithoutClient(profile) ==
  [configPath |-> profile.config_path, backupPath |-> profile.backup_path,
   claudePath |-> IF profile.mcp_client_path = "" THEN Absent
                  ELSE profile.mcp_client_path]

\* the argument of saveSettings: claudePath is
\* `profile.mcp_client_path || undefined`
SwitchSettings(profile) ==
  [configPath |-> profile.config_path, backupPath |-> profile.backup_path,
   claudePath |-> IF profile.mcp_client_path = "" THEN Unset
                  ELSE profile.mcp_client_path]

\* A head of the handler that goes on with an empty document when the
\* profile has no configuration.
SwitchStartDefaulting(s, id) ==
  /\ MaySwitch(s)
  /\ LET r == [Idle EXCEPT !.kind = "switch", !.id = id, !.pre = Pre,
                           !.auto = Started(s)] IN
     IF getProfile(id) = {}
     THEN op' = [op EXCEPT ![s] = Fail(r, "Profile not found")]
     ELSE LET profile == CHOOSE p \in getProfile(id) : TRUE
              q == [r EXCEPT !.profile = profile, !.path = profile.config_path] IN
          \E content \in IF getLatestConfiguration(id) = {} THEN {EmptyDocText}
                          ELSE getLatestConfiguration(id) :
            LET c == [q EXCEPT !.text = content] IN
            IF SwitchLoadError(content) # ""
            THEN op' = [op EXCEPT ![s] = Fail(c, SwitchLoadError(content))]
            ELSE op' = [op EXCEPT ![s] =
                   [c EXCEPT !.val = content.val,
                             !.ms = NormalizedMs(content.val),
                             !.pc = IF existsSync(profile.config_path)
                                    THEN "backup" ELSE "write"]]
  /\ UNCHANGED <<store, disk, now, ui>>

\* lines 125-152: getProfile, getLatestConfiguration, JSON.parse, the
\* mcpServers check and existsSync, up to the first await
SwitchStart(s, id) ==
  /\ MaySwitch(s)
  /\ LET r == [Idle EXCEPT !.kind = "switch", !.id = id, !.pre = Pre,
                           !.auto = Started(s)] IN
     IF getProfile(id) = {}
     THEN op' = [op EXCEPT ![s] = Fail(r, "Profile not found")]
     ELSE LET profile == CHOOSE p \in getProfile(id) : TRUE
              q == [r EXCEPT !.profile = profile, !.path = profile.config_path] IN
          IF getLatestConfiguration(id) = {}
          THEN op' = [op EXCEPT
                 ![s] = Fail(q, "No configuration found for this profile")]
          ELSE \E content \in getLatestConfiguration(id) :
                 LET c == [q EXCEPT !.text = content] IN
                 IF SwitchLoadError(content) # ""
                 THEN op' = [op EXCEPT ![s] = Fail(c, SwitchLoadError(content))]
                 ELSE op' = [op EXCEPT ![s] =
                        [c EXCEPT !.val = content.val,
                                  !.ms = NormalizedMs(content.val),
                                  !.pc = IF existsSync(profile.config_path)
                                         THEN "backup" ELSE "write"]]
  /\ UNCHANGED <<store, disk, now, ui>>

\* createBackup(filePath): reads settings and the file, writes the copy;
\* every error is caught and returned as { success: false }
createBackup(s, filePath, next, onFailure) ==
  \E io \in BOOLEAN :
    IF io /\ existsSync(filePath)
    THEN /\ backups' = BackupsAfterWrite(
                         BackupFilePath(BackupDir, filePath, now), files[filePath])
         /\ op' = [op EXCEPT ![s] = [op[s] EXCEPT !.pc = next, !.backedUp = TRUE]]
    ELSE /\ backups' = backups
         /\ op' = [op EXCEPT ![s] = onFailure]

\* A backup step that goes on to the merge whatever createBackup returns.
SwitchBackupUnchecked(s) ==
  /\ op[s].kind = "switch" /\ op[s].pc = "backup"
  /\ createBackup(s, op[s].path, "merge", [op[s] EXCEPT !.pc = "merge"])
  /\ UNCHANGED <<store, files, settings, now, ui>>

SwitchBackup(s) ==
  /\ op[s].kind = "switch" /\ op[s].pc = "backup"
  /\ createBackup(s, op[s].path, "merge", Fail(op[s], "Failed to create backup"))
  /\ UNCHANGED <<store, files, settings, now, ui>>

\* A merge without the try block: an existing file that does not parse
\* makes the switch fail.
SwitchMergeStrict(s) ==
  /\ op[s].kind = "switch" /\ op[s].pc = "merge"
  /\ op' = [op EXCEPT ![s] =
       IF existsSync(op[s].path) /\ ~Parses(files[op[s].path])
       THEN Fail(op[s], "Could not read existing configuration")
       ELSE [op[s] EXCEPT !.pc = "write",
               !.ms = IF existsSync(op[s].path)
                      THEN PreserveExisting(op[s].ms, files[op[s].path])
                      ELSE op[s].ms]]
  /\ UNCHANGED <<store, disk, now, ui>>

\* lines 159-173: fs.readFile of the existing file and the merge; a failed
\* read is caught and the handler continues
SwitchMerge(s) ==
  /\ op[s].kind = "switch" /\ op[s].pc = "merge"
  /\ op' = [op EXCEPT ![s] =
              [op[s] EXCEPT !.pc = "write",
                 !.ms = IF existsSync(op[s].path)
                        THEN PreserveExisting(op[s].ms, files[op[s].path])
                        ELSE op[s].ms]]
  /\ UNCHANGED <<store, disk, now, ui>>

\* A write step that saves the settings first and writes the file after.
SwitchWritePointerFirst(s) ==
  /\ op[s].kind = "switch" /\ op[s].pc = "write"
  /\ settings' = Spread(settings, SwitchSettings(op[s].profile))
  /\ \E io \in BOOLEAN :
       IF io
       THEN /\ files' = [files EXCEPT ![op[s].path] = FinalContent(op[s].val, op[s].ms)]
            /\ op' = [op EXCEPT ![s] =
                        [op[s] EXCEPT !.pc = "settings",
                                      !.wrote = FinalContent(op[s].val, op[s].ms)]]
       ELSE /\ files' = files
            /\ op' = [op EXCEPT ![s] = Fail(op[s], "write failed")]
  /\ UNCHANGED <<store, backups, now, ui>>

\* lines 177-182: mkdir and fs.writeFile(profile.config_path, finalContent)
SwitchWrite(s) ==
  /\ op[s].kind = "switch" /\ op[s].pc = "write"
  /\ \E io \in BOOLEAN :
       IF io
       THEN /\ files' = [files EXCEPT ![op[s].path] = FinalContent(op[s].val, op[s].ms)]
            /\ op' = [op EXCEPT ![s] =
                        [op[s] EXCEPT !.pc = "settings",
                                      !.wrote = FinalContent(op[s].val, op[s].ms)]]
       ELSE /\ files' = files
            /\ op' = [op EXCEPT ![s] = Fail(op[s], "write failed")]
  /\ UNCHANGED <<store, backups, settings, now, ui>>

\* lines 185-189: saveSettings with the profile's paths
SwitchSaveSettings(s) ==
  /\ op[s].kind = "switch" /\ op[s].pc = "settings"
  /\ \E io \in BOOLEAN :
       IF io
       THEN /\ settings' = Spread(settings, SwitchSettings(op[s].profile))
            /\ op' = [op EXCEPT ![s] =
                        [op[s] EXCEPT !.pc = "prefs",
                                      !.given = SwitchSettings(op[s].profile)]]
       ELSE /\ settings' = settings
            /\ op' = [op EXCEPT ![s] = Fail(op[s], "settings write failed")]
  /\ UNCHANGED <<store, files, backups, now, ui>>

\* lines 192-197: savePreferences, then (with no await in between)
\* profileDb.saveConfiguration(id, finalContent) and the result
SwitchSaveConfiguration(s) ==
  /\ op[s].kind = "switch" /\ op[s].pc = "prefs"
  /\ \E io \in BOOLEAN, db \in BOOLEAN :
       IF ~io
       THEN /\ UNCHANGED <<configurations, lastConfigId>>
            /\ op' = [op EXCEPT ![s] = Fail(op[s], "preferences write failed")]
       ELSE /\ IF db /\ ForeignKeyOk(op[s].id)
               THEN /\ configurations' = saveConfiguration(op[s].id, op[s].wrote)
                    /\ lastConfigId' = lastConfigId + 1
                    /\ op' = [op EXCEPT ![s] = Succeed([op[s] EXCEPT !.saved = TRUE])]
               ELSE /\ UNCHANGED <<configurations, lastConfigId>>
                    /\ op' = [op EXCEPT ![s] = Fail(op[s], "store write failed")]
  /\ UNCHANGED <<profiles, lastProfileId, files, backups, settings, now, ui>>

\* the handler has returned and the renderer has consumed the result
Return(s) ==
  /\ op[s].pc = "done"
  /\ op[s].kind \notin {"switch", "delete", "start"}
  /\ op' = [op EXCEPT ![s] = Idle]
  /\ UNCHANGED <<store, disk, now, ui>>

\* ------------------------------------- handleSwitchProfile (ProfileManager)
\* the renderer receives the result of switch-profile: on success
\* setSelectedProfile(profile) and onProfileSwitch(), which reloads
handleSwitchProfile(s) ==
  /\ op[s].kind = "switch" /\ op[s].pc = "done"
  /\ IF op[s].ok
     THEN /\ ui' = [ui EXCEPT !.selectedProfile = op[s].id]
          /\ op' = [op EXCEPT ![s] = [Idle EXCEPT !.kind = "reload", !.pc = "settings"]]
     ELSE /\ ui' = ui
          /\ op' = [op EXCEPT ![s] = Idle]
  /\ UNCHANGED <<store, disk, now>>

\* ---------------------------------------- handleProfileSwitch (ConfigEditor)
\* runs at startup, after a switch and when the settings modal closes:
\* loadSettings, then setConfigPath
ReloadStart(s) ==
  /\ op[s].pc = "idle"
  /\ op' = [op EXCEPT ![s] = [Idle EXCEPT !.kind = "reload", !.pc = "settings"]]
  /\ UNCHANGED <<store, disk, now, ui>>

ReloadSettings(s) ==
  /\ op[s].kind = "reload" /\ op[s].pc = "settings"
  /\ ui' = [ui EXCEPT !.configPath = settings.configPath]
  /\ op' = [op EXCEPT ![s] = [op[s] EXCEPT !.pc = "load", !.path = settings.configPath]]
  /\ UNCHANGED <<store, disk, now>>

\* load-config-by-path: fs.readFile and savePreferences; when it throws,
\* currentFilePath keeps its value
ReloadConfig(s) ==
  /\ op[s].kind = "reload" /\ op[s].pc = "load"
  /\ \E io \in BOOLEAN :
       IF io /\ existsSync(op[s].path)
       THEN ui' = [ui EXCEPT !.currentFilePath = op[s].path]
       ELSE ui' = ui
  /\ op' = [op EXCEPT ![s] = Idle]
  /\ UNCHANGED <<store, files, backups, settings, now>>

\* ------------------------------------------------------ save-config (main)
\* RawConfigModal.handleSave: JSON.parse must succeed and the value must
\* have a truthy mcpServers of type 'object'; reading .mcpServers of null
\* throws. "" when the text is accepted.
ValidationError(text) ==
  IF ~Parses(text) THEN "Invalid JSON"
  ELSE IF ~CanReadProps(text.val) THEN "TypeError"
  ELSE IF ~Truthy(ReadMs(text.val)) \/ ~TypeofObject(ReadMs(text.val))
       THEN "Configuration must contain an mcpServers object"
  ELSE ""

\* save-config up to its first await: existsSync(targetPath)
SaveConfigEntry(r) ==
  [r EXCEPT !.pc = IF existsSync(r.path) THEN "backup" ELSE "write"]

\* RawConfigModal.handleSave and onSave up to the saveConfig call
RawSaveStart(s, text) ==
  /\ op[s].pc = "idle"
  /\ LET r == [Idle EXCEPT !.kind = "rawsave", !.text = text,
                           !.path = ui.currentFilePath, !.pre = Pre] IN
     op' = [op EXCEPT ![s] =
       IF ValidationError(text) # "" THEN Fail(r, ValidationError(text))
       ELSE IF ui.currentFilePath = NoPath THEN Fail(r, "No file path specified")
       ELSE SaveConfigEntry(r)]
  /\ UNCHANGED <<store, disk, now, ui>>

\* the text the server edit modal generates from its components:
\* JSON.stringify({ mcpServers }, null, 2)
GeneratedConfig(names) == JSON_stringify(JObj(MsMap(names), FALSE), 2)

\* Server edit modal, Save: saveConfig when there is a currentFilePath
EditSaveStart(s, names) ==
  /\ op[s].pc = "idle"
  /\ ui.currentFilePath # NoPath
  /\ op' = [op EXCEPT ![s] =
       SaveConfigEntry([Idle EXCEPT !.kind = "editsave",
                          !.text = GeneratedConfig(names),
                          !.path = ui.currentFilePath, !.pre = Pre])]
  /\ UNCHANGED <<store, disk, now, ui>>

\* `await createBackup(targetPath)`: the result is not looked at
SaveConfigBackup(s) ==
  /\ op[s].kind \in {"rawsave", "editsave"} /\ op[s].pc = "backup"
  /\ createBackup(s, op[s].path, "write", [op[s] EXCEPT !.pc = "write"])
  /\ UNCHANGED <<store, files, settings, now, ui>>

\* fs.writeFile(targetPath, content)
SaveConfigWrite(s) ==
  /\ op[s].kind \in {"rawsave", "editsave"} /\ op[s].pc = "write"
  /\ \E io \in BOOLEAN :
       IF io
       THEN /\ files' = [files EXCEPT ![op[s].path] = op[s].text]
            /\ op' = [op EXCEPT ![s] = [op[s] EXCEPT !.pc = "prefs", !.wrote = op[s].text]]
       ELSE /\ files' = files
            /\ op' = [op EXCEPT ![s] = Fail(op[s], "Failed to save file")]
  /\ UNCHANGED <<store, backups, settings, now, ui>>

\* savePreferences, then the handler returns targetPath
SaveConfigPrefs(s) ==
  /\ op[s].kind \in {"rawsave", "editsave"} /\ op[s].pc = "prefs"
  /\ \E io \in BOOLEAN :
       IF io
       THEN op' = [op EXCEPT ![s] =
                 IF op[s].kind = "rawsave" THEN [op[s] EXCEPT !.pc = "profiles"]
                 ELSE Succeed(op[s])]
       ELSE op' = [op EXCEPT ![s] = Fail(op[s], "Failed to save file")]
  /\ UNCHANGED <<store, files, backups, settings, now, ui>>

\* onSave: getAllProfiles, then profiles.find(p => p.config_path === configPath)
RawSaveFindProfile(s) ==
  /\ op[s].kind = "rawsave" /\ op[s].pc = "profiles"
  /\ IF FirstProfileAt(ui.configPath) = {}
     THEN op' = [op EXCEPT ![s] = Succeed(op[s])]
     ELSE \E p \in FirstProfileAt(ui.configPath) :
            op' = [op EXCEPT ![s] = [op[s] EXCEPT !.pc = "saveprofile", !.id = p.id]]
  /\ UNCHANGED <<store, disk, now, ui>>

\* save-profile (main): saveConfiguration; an error is returned as
\* { success: false, error }. The request goes on as onSuccess or as
\* onFailure.
saveProfile(s, id, content, onSuccess, onFailure) ==
  /\ \E db \in BOOLEAN :
       IF db /\ ForeignKeyOk(id)
       THEN /\ configurations' = saveConfiguration(id, content)
            /\ lastConfigId' = lastConfigId + 1
            /\ op' = [op EXCEPT ![s] = [onSuccess EXCEPT !.saved = TRUE]]
       ELSE /\ UNCHANGED <<configurations, lastConfigId>>
            /\ op' = [op EXCEPT ![s] = onFailure]
  /\ UNCHANGED <<profiles, lastProfileId>>

\* onSave: saveProfile(currentProfile.id, configText), whose result is not
\* looked at, then loadConfigFromContent
RawSaveProfile(s) ==
  /\ op[s].kind = "rawsave" /\ op[s].pc = "saveprofile"
  /\ saveProfile(s, op[s].id, op[s].text, Succeed(op[s]),
                 Succeed([op[s] EXCEPT !.err = "Failed to save profile"]))
  /\ UNCHANGED <<disk, now, ui>>

\* ------------------------------------- handleCreateProfile (ProfileManager)
\* `settings.backupPath || ''` and `settings.claudePath || null`
OrEmpty(v) == IF v = Unset THEN "" ELSE v

\* the click and loadSettings: the arguments of createProfile
CreateStart(s, name) ==
  /\ op[s].pc = "idle"
  /\ lastProfileId < MaxProfiles
  /\ op' = [op EXCEPT ![s] =
       [Idle EXCEPT !.kind = "create", !.pc = "insert", !.pre = Pre,
          !.name = name,
          !.path = settings.configPath,
          !.profile = NewProfile(0, name, settings.configPath,
                        OrEmpty(settings.backupPath), OrEmpty(settings.claudePath), 0)]]
  /\ UNCHANGED <<store, disk, now, ui>>

\* createProfile(name, ...): the INSERT throws when the name is taken
\* (name TEXT NOT NULL UNIQUE); otherwise the row gets the next id
createProfile(name, configPath, backupPath, mcpClientPath) ==
  profiles \cup {NewProfile(lastProfileId + 1, name, configPath, backupPath,
                            mcpClientPath, now)}

\* create-profile (main)
CreateInsert(s) ==
  /\ op[s].kind = "create" /\ op[s].pc = "insert"
  /\ IF NameTaken(profiles, op[s].profile.name)
     THEN /\ UNCHANGED <<profiles, lastProfileId>>
          /\ op' = [op EXCEPT ![s] = Fail(op[s], "Failed to create profile")]
     ELSE /\ profiles' = createProfile(op[s].profile.name, op[s].profile.config_path,
                           op[s].profile.backup_path, op[s].profile.mcp_client_path)
          /\ lastProfileId' = lastProfileId + 1
          /\ op' = [op EXCEPT ![s] =
                      [op[s] EXCEPT !.pc = "load", !.id = lastProfileId + 1]]
  /\ UNCHANGED <<configurations, lastConfigId, disk, now, ui>>

\* the configuration a new profile starts with, given what was read at
\* its config path (NoFile when the read failed):
\* `config && config.mcpServers && typeof config.mcpServers === 'object'`
SeedContent(content) ==
  IF /\ Parses(content)
     /\ content.val.t # "null"
     /\ Truthy(ReadMs(content.val))
     /\ TypeofObject(ReadMs(content.val))
  THEN content
  ELSE EmptyDocText

\* loadConfigByPath(settings.configPath) inside try/catch
CreateLoadConfig(s) ==
  /\ op[s].kind = "create" /\ op[s].pc = "load"
  /\ \E io \in BOOLEAN :
       IF io /\ existsSync(op[s].path)
       THEN op' = [op EXCEPT ![s] =
                 [op[s] EXCEPT !.pc = "save", !.text = SeedContent(files[op[s].path])]]
       ELSE op' = [op EXCEPT ![s] =
                 [op[s] EXCEPT !.pc = "save", !.text = SeedContent(NoFile)]]
  /\ UNCHANGED <<store, files, backups, settings, now, ui>>

\* saveProfile(id, configContent), whose result is not looked at
CreateSave(s) ==
  /\ op[s].kind = "create" /\ op[s].pc = "save"
  /\ saveProfile(s, op[s].id, op[s].text, Succeed(op[s]),
                 Succeed([op[s] EXCEPT !.err = "Failed to save profile"]))
  /\ UNCHANGED <<disk, now, ui>>

\* ------------------------------------------------- remix-profile (main)
\* A remix that creates the new profile before it looks for the source's
\* configuration.
RemixProfileCreatingFirst(s, id, newName) ==
  /\ op[s].pc = "idle"
  /\ \/ lastProfileId < MaxProfiles
     \/ getProfile(id) = {}
     \/ getLatestConfiguration(id) = {}
     \/ NameTaken(profiles, newName)
  /\ LET r == [Idle EXCEPT !.kind = "remix", !.id = id, !.name = newName,
                           !.pre = Pre] IN
     IF getProfile(id) = {} \/ NameTaken(profiles, newName)
     THEN /\ op' = [op EXCEPT ![s] = Fail(r, "Source profile not found")]
          /\ UNCHANGED store
     ELSE LET sourceProfile == CHOOSE p \in getProfile(id) : TRUE IN
          /\ profiles' = createProfile(newName, sourceProfile.config_path,
                sourceProfile.backup_path, sourceProfile.mcp_client_path)
          /\ lastProfileId' = lastProfileId + 1
          /\ IF getLatestConfiguration(id) = {}
             THEN /\ UNCHANGED <<configurations, lastConfigId>>
                  /\ op' = [op EXCEPT ![s] =
                        Fail(r, "No configuration found for source profile")]
             ELSE \E content \in getLatestConfiguration(id) :
                    /\ configurations' =
                         saveConfiguration(lastProfileId + 1, content)
                    /\ lastConfigId' = lastConfigId + 1
                    /\ op' = [op EXCEPT ![s] =
                          Succeed([r EXCEPT !.text = content, !.saved = TRUE])]
  /\ UNCHANGED <<disk, now, ui>>

\* the handler has no await: it runs as one step
RemixProfile(s, id, newName) ==
  /\ op[s].pc = "idle"
  /\ \/ lastProfileId < MaxProfiles
     \/ getProfile(id) = {}
     \/ getLatestConfiguration(id) = {}
     \/ NameTaken(profiles, newName)
  /\ LET r == [Idle EXCEPT !.kind = "remix", !.id = id, !.name = newName,
                           !.pre = Pre] IN
     IF getProfile(id) = {}
     THEN /\ op' = [op EXCEPT ![s] = Fail(r, "Source profile not found")]
          /\ UNCHANGED store
     ELSE IF getLatestConfiguration(id) = {}
     THEN /\ op' = [op EXCEPT ![s] =
                      Fail(r, "No configuration found for source profile")]
          /\ UNCHANGED store
     ELSE LET sourceProfile == CHOOSE p \in getProfile(id) : TRUE IN
          \E content \in getLatestConfiguration(id), db \in BOOLEAN :
            LET q == [r EXCEPT !.text = content, !.profile = sourceProfile] IN
            IF content.fmt = "empty"
            THEN /\ op' = [op EXCEPT ![s] =
                             Fail(q, "No configuration found for source profile")]
                 /\ UNCHANGED store
            ELSE IF NameTaken(profiles, newName)
            THEN /\ op' = [op EXCEPT ![s] = Fail(q, "UNIQUE constraint failed")]
                 /\ UNCHANGED store
            ELSE /\ profiles' = createProfile(newName, sourceProfile.config_path,
                       sourceProfile.backup_path, sourceProfile.mcp_client_path)
                 /\ lastProfileId' = lastProfileId + 1
                 /\ IF db
                    THEN /\ configurations' =
                              saveConfiguration(lastProfileId + 1, content)
                         /\ lastConfigId' = lastConfigId + 1
                         /\ op' = [op EXCEPT ![s] =
                              Succeed([q EXCEPT !.saved = TRUE])]
                    ELSE /\ UNCHANGED <<configurations, lastConfigId>>
                         /\ op' = [op EXCEPT ![s] = Fail(q, "store write failed")]
  /\ UNCHANGED <<disk, now, ui>>

\* ------------------------------------------------ delete-profile (main)
\* A deletion that also puts the settings back to the defaults.
DeleteProfileResettingPointer(s, id) ==
  /\ op[s].pc = "idle"
  /\ profiles' = profiles \ getProfile(id)
  /\ configurations' = RowsAfterDelete(id)
  /\ settings' = DefaultSettings
  /\ op' = [op EXCEPT ![s] =
       Succeed([Idle EXCEPT !.kind = "delete", !.id = id, !.pre = Pre])]
  /\ UNCHANGED <<lastProfileId, lastConfigId, files, backups, now, ui>>

DeleteProfile(s, id) ==
  /\ op[s].pc = "idle"
  /\ profiles' = profiles \ getProfile(id)
  /\ configurations' = RowsAfterDelete(id)
  /\ op' = [op EXCEPT ![s] =
       Succeed([Idle EXCEPT !.kind = "delete", !.id = id, !.pre = Pre])]
  /\ UNCHANGED <<lastProfileId, lastConfigId, disk, now, ui>>

\* handleDeleteProfile after the result:
\* `if (selectedProfile?.id === profile.id) setSelectedProfile(null)`
handleDeleteProfile(s) ==
  /\ op[s].kind = "delete" /\ op[s].pc = "done"
  /\ ui' = [ui EXCEPT !.selectedProfile =
              IF ui.selectedProfile = op[s].id THEN 0 ELSE ui.selectedProfile]
  /\ op' = [op EXCEPT ![s] = Idle]
  /\ UNCHANGED <<store, disk, now>>

\* -------------------------------------------------- save-profile (main)
\* called on its own: profileDb.saveConfiguration(id, content) with no
\* validation of content
SaveProfile(s, id, content) ==
  /\ op[s].pc = "idle"
  /\ LET r == [Idle EXCEPT !.kind = "saveprofile", !.id = id, !.text = content,
                           !.pre = Pre] IN
     saveProfile(s, id, content, Succeed(r), Fail(r, "Failed to save profile"))
  /\ UNCHANGED <<disk, now, ui>>

\* ------------------------------------------- SettingsModal.handleSave
\* save-settings with the three fields of the form; on success the modal
\* closes and the editor reloads (loadSettings().then(handleProfileSwitch))
SaveSettingsModal(s, given) ==
  /\ op[s].pc = "idle"
  /\ \E io \in BOOLEAN :
       IF io
       THEN /\ settings' = Spread(settings, given)
            /\ op' = [op EXCEPT ![s] =
                        [Idle EXCEPT !.kind = "reload", !.pc = "settings"]]
       ELSE UNCHANGED <<settings, op>>
  /\ UNCHANGED <<store, files, backups, now, ui>>

\* ------------------------------------------------ save-settings (main)
\* the handler called with an object that has some of the three fields:
\* saveSettings(settings), which throws when the write fails
SaveSettings(s, given) ==
  /\ op[s].pc = "idle"
  /\ LET r == [Idle EXCEPT !.kind = "savesettings", !.given = given,
                           !.pre = Pre] IN
     \E io \in BOOLEAN :
       IF io
       THEN /\ settings' = Spread(settings, given)
            /\ op' = [op EXCEPT ![s] = Succeed(r)]
       ELSE /\ settings' = settings
            /\ op' = [op EXCEPT ![s] = Fail(r, "settings write failed")]
  /\ UNCHANGED <<store, files, backups, now, ui>>

\* ---------------------------------- initializeProfiles (ProfileManager)
\* A list in the order of creation, oldest first.
OldestProfiles ==
  {p \in profiles : \A q \in profiles : p.created_at <= q.created_at}

\* getAllProfiles()[0]: ORDER BY created_at DESC, ties in no specified
\* order: the profiles that may come first
FirstProfiles ==
  {p \in profiles : \A q \in profiles : q.created_at <= p.created_at}

\* the effect that runs when ProfileManager mounts: loadProfiles, then
\* handleSwitchProfile(loadedProfiles[0]) when the list is not empty
initializeProfiles(s) ==
  /\ Started(s)
  /\ IF FirstProfiles = {}
     THEN /\ op' = [op EXCEPT ![s] = Idle]
          /\ UNCHANGED <<store, disk, now, ui>>
     ELSE \E p \in FirstProfiles : SwitchStart(s, p.id)

\* ------------------------------------------- the application starts again
\* new ProfileDatabase() on the existing database file: the tables exist,
\* ensureDefaultProfile creates "Default" when getProfileCount is 0. The
\* renderer mounts with nothing loaded and initializeProfiles runs next
\* (the slot holds the start until then). A start whose bootstrap throws
\* does not bring the application up; such a start is not a step here.
\* A bootstrap that does not look at the profile count.
ProfileCountIgnored(rows) == TRUE

ProfileCountIsZero(rows) == rows = {}

Restart(s) ==
  /\ op[s].pc = "idle"
  /\ ProfileCountIsZero(profiles) => lastProfileId < MaxProfiles
  /\ IF ProfileCountIsZero(profiles)
     THEN /\ profiles' = createProfile("Default", DEFAULT_CONFIG_PATH,
                                       defaultBackupPath, "")
          /\ lastProfileId' = lastProfileId + 1
          /\ configurations' =
               saveConfiguration(lastProfileId + 1,
                                 SeedContent(files[DEFAULT_CONFIG_PATH]))
          /\ lastConfigId' = lastConfigId + 1
     ELSE UNCHANGED store
  /\ ui' = [selectedProfile |-> 0, configPath |-> NoPath, currentFilePath |-> NoPath]
  /\ op' = [op EXCEPT ![s] = Succeed([Idle EXCEPT !.kind = "start", !.pre = Pre])]
  /\ UNCHANGED <<disk, now>>

\* the clock advances
Tick ==
  /\ now < MaxClock
  /\ now' = now + 1
  /\ UNCHANGED <<store, disk, ui, op>>

\* ------------------------------------------------------------- inputs
Doc(fmt, names) == [fmt |-> fmt, val |-> JObj(MsMap(names), FALSE)]
\* {"mcpServers": {"a": ...}} laid out by hand
DocA == Doc("hand", {"a"})
\* {"mcpServers": {"b": ...}} on one line
DocB == Doc("compact", {"b"})
\* {"other": 1}: an object with no mcpServers
NoServersText == [fmt |-> "compact", val |-> JObj(MsAbsent, TRUE)]
\* {"mcpServers": []}
ArrayServersText == [fmt |-> "compact", val |-> JObj(MsArr({}), FALSE)]

\* what the configuration files may hold when the application starts
InitFiles == {NoFile, BadText, DocA}
\* what the user may type into the raw configuration modal
RawTexts == {BadText, NoServersText, ArrayServersText, DocB}
\* []: a JSON text whose top-level value is an array
TopArrayText == JSON_stringify(JArr, 0)
\* what a caller of save-profile may pass
StoredTexts == {NoServersText, EmptyDocText, TopArrayText, DocB}
\* what the user may enter in the settings modal
SettingsInputs ==
  {[configPath |-> OtherConfigPath, backupPath |-> OtherBackupPath,
    claudePath |-> ClientPath]}

\* the objects a caller of save-settings may pass: some of the fields
PartialSettings ==
  {[NothingGiven EXCEPT !.backupPath = OtherBackupPath],
   [NothingGiven EXCEPT !.configPath = OtherConfigPath, !.claudePath = ClientPath]}

ProfileIds == 1..MaxProfiles

\* --------------------------------------------------------------- Init
\* new ProfileDatabase() on a new database file: ensureDefaultProfile
\* creates "Default" with the content of the default configuration file
\* when it parses and has an mcpServers object, else an empty document.
\* No settings.json and no preferences.json yet; the renderer has mounted
\* and initializeProfiles has not run yet. The clock has advanced since the
\* database was created.
ensureDefaultProfile(existing) ==
  [profiles |-> {NewProfile(1, "Default", DEFAULT_CONFIG_PATH, defaultBackupPath, "", 0)},
   configurations |-> <<NewConfiguration(1, 1, SeedContent(existing), 0)>>]

Init ==
  /\ files \in [ConfigPaths -> InitFiles]
  /\ profiles = ensureDefaultProfile(files[DEFAULT_CONFIG_PATH]).profiles
  /\ configurations = ensureDefaultProfile(files[DEFAULT_CONFIG_PATH]).configurations
  /\ lastProfileId = 1
  /\ lastConfigId = 1
  /\ backups = {}
  /\ settings = DefaultSettings
  /\ now = 1
  /\ ui = [selectedProfile |-> 0, configPath |-> NoPath, currentFilePath |-> NoPath]
  /\ op = [s \in Slots |->
            IF s = 1 THEN Succeed([Idle EXCEPT !.kind = "start"]) ELSE Idle]
  /\ issued = 0
  /\ clean = TRUE
  /\ remixed = {}
  /\ overlapped = {}

Failed(r) == r.pc = "done" /\ ~r.ok

\* One request at a time: the caller issues a request when the previous
\* one has completed, so only the first slot is ever taken.
Serial(s) ==
  /\ AllIdle /\ FreeSlot(s)
  /\ issued < MaxRequests
  /\ issued' = issued + 1

\* bookkeeping of `clean`: an editor request, another request, a step
Editor(s) ==
  clean' = (clean /\ ~Failed(op'[s])) /\ UNCHANGED <<remixed, overlapped>>
Other == clean' = FALSE /\ UNCHANGED <<remixed, overlapped>>
Stepped(s) ==
  clean' = (clean /\ ~Failed(op'[s])) /\ UNCHANGED <<issued, remixed, overlapped>>
\* bookkeeping of `remixed`: a remix request that has succeeded
Remixed(s, id) ==
  /\ clean' = FALSE
  /\ remixed' = IF op'[s].ok THEN remixed \cup {<<id, lastProfileId'>>}
                ELSE remixed
  /\ UNCHANGED overlapped

Next ==
  \/ \E s \in Slots, id \in ProfileIds : Serial(s) /\ SwitchStart(s, id) /\ Editor(s)
  \/ \E s \in Slots : Serial(s) /\ ReloadStart(s) /\ Editor(s)
  \/ \E s \in Slots, text \in RawTexts : Serial(s) /\ RawSaveStart(s, text) /\ Editor(s)
  \/ \E s \in Slots, names \in ServerMaps \ {{}} :
       Serial(s) /\ EditSaveStart(s, names) /\ Editor(s)
  \/ \E s \in Slots, name \in ProfileNames : Serial(s) /\ CreateStart(s, name) /\ Other
  \/ \E s \in Slots, id \in ProfileIds, name \in ProfileNames :
       Serial(s) /\ RemixProfile(s, id, name) /\ Remixed(s, id)
  \/ \E s \in Slots, id \in ProfileIds : Serial(s) /\ DeleteProfile(s, id) /\ Other
  \/ \E s \in Slots, id \in ProfileIds, text \in StoredTexts :
       Serial(s) /\ SaveProfile(s, id, text) /\ Other
  \/ \E s \in Slots, given \in SettingsInputs :
       Serial(s) /\ SaveSettingsModal(s, given) /\ Other
  \/ \E s \in Slots, given \in PartialSettings :
       Serial(s) /\ SaveSettings(s, given) /\ Other
  \/ \E s \in Slots : SwitchBackup(s) /\ Stepped(s)
  \/ \E s \in Slots : SwitchMerge(s) /\ Stepped(s)
  \/ \E s \in Slots : SwitchWrite(s) /\ Stepped(s)
  \/ \E s \in Slots : SwitchSaveSettings(s) /\ Stepped(s)
  \/ \E s \in Slots : SwitchSaveConfiguration(s) /\ Stepped(s)
  \/ \E s \in Slots : handleSwitchProfile(s) /\ Stepped(s)
  \/ \E s \in Slots : ReloadSettings(s) /\ Stepped(s)
  \/ \E s \in Slots : ReloadConfig(s) /\ Stepped(s)
  \/ \E s \in Slots : SaveConfigBackup(s) /\ Stepped(s)
  \/ \E s \in Slots : SaveConfigWrite(s) /\ Stepped(s)
  \/ \E s \in Slots : SaveConfigPrefs(s) /\ Stepped(s)
  \/ \E s \in Slots : RawSaveFindProfile(s) /\ Stepped(s)
  \/ \E s \in Slots : RawSaveProfile(s) /\ Stepped(s)
  \/ \E s \in Slots : CreateInsert(s) /\ Stepped(s)
  \/ \E s \in Slots : CreateLoadConfig(s) /\ Stepped(s)
  \/ \E s \in Slots : CreateSave(s) /\ Stepped(s)
  \/ \E s \in Slots : handleDeleteProfile(s) /\ Stepped(s)
  \/ \E s \in Slots : Return(s) /\ Stepped(s)
  \/ \E s \in Slots : Serial(s) /\ Restart(s) /\ Other
  \/ \E s \in Slots : initializeProfiles(s) /\ Stepped(s)
  \/ AllIdle /\ Tick /\ UNCHANGED <<issued, clean, remixed, overlapped>>

Spec == Init /\ [][Next]_vars

\* --------------------------------------------------- overlapping requests
\* The profile list stays clickable while a switch is running
\* (handleSwitchProfile sets isLoading, which only disables the dialog
\* buttons), and the edit modal starts saveConfig without waiting for it:
\* the renderer issues a switch or an editor save while another request is
\* in flight, and the handlers of the main process interleave at their
\* awaits.

\* The application has been started again on a store with the profile
\* "Default" and a second profile "Work", created by handleCreateProfile
\* under the default settings or under the settings entered in the settings
\* modal; each has its first snapshot. The renderer has mounted and
\* initializeProfiles has not run yet.
InitOverlap ==
  /\ files \in [ConfigPaths -> InitFiles]
  /\ settings \in {DefaultSettings} \cup
                   {Spread(DefaultSettings, given) : given \in SettingsInputs}
  /\ profiles = ensureDefaultProfile(files[DEFAULT_CONFIG_PATH]).profiles \cup
       {NewProfile(2, "Work", settings.configPath, OrEmpty(settings.backupPath),
                   OrEmpty(settings.claudePath), 1)}
  /\ configurations =
       Append(ensureDefaultProfile(files[DEFAULT_CONFIG_PATH]).configurations,
              NewConfiguration(2, 2, SeedContent(files[settings.configPath]), 1))
  /\ lastProfileId = 2
  /\ lastConfigId = 2
  /\ backups = {}
  /\ now = 1
  /\ ui = [selectedProfile |-> 0, configPath |-> NoPath, currentFilePath |-> NoPath]
  /\ op = [s \in Slots |->
            IF s = 1 THEN Succeed([Idle EXCEPT !.kind = "start"]) ELSE Idle]
  /\ issued = 0
  /\ clean = TRUE
  /\ remixed = {}
  /\ overlapped = {}

\* the handler of the request of slot s is running: it has started and has
\* not returned
InFlight(s) ==
  /\ op[s].kind \in {"switch", "rawsave", "editsave"}
  /\ op[s].pc \notin {"idle", "done"}

\* The replies of the main process reach the renderer in the order in
\* which the handlers return: a reply is consumed before the next handler
\* step.
NoReplyPending == \A s \in Slots : op[s].pc # "done"

\* a request issued whether or not another one is in flight
Overlapping(s) ==
  /\ FreeSlot(s) /\ NoReplyPending
  /\ issued < MaxOverlapRequests
  /\ issued' = issued + 1

\* bookkeeping of `overlapped`: a switch issued while switches are in flight
Overlapped(s) ==
  /\ clean' = (clean /\ ~Failed(op'[s]))
  /\ overlapped' = overlapped \cup
       {<<op[t].id, op'[s].id>> : t \in {u \in Slots \ {s} :
                                          op[u].kind = "switch" /\ InFlight(u)}}
  /\ UNCHANGED remixed

NextOverlap ==
  \/ \E s \in Slots, id \in ProfileIds :
       Overlapping(s) /\ SwitchStart(s, id) /\ Overlapped(s)
  \/ \E s \in Slots, names \in ServerMaps \ {{}} :
       Overlapping(s) /\ EditSaveStart(s, names) /\ Editor(s)
  \/ \E s \in Slots : NoReplyPending /\ SwitchBackup(s) /\ Stepped(s)
  \/ \E s \in Slots : NoReplyPending /\ SwitchMerge(s) /\ Stepped(s)
  \/ \E s \in Slots : NoReplyPending /\ SwitchWrite(s) /\ Stepped(s)
  \/ \E s \in Slots : NoReplyPending /\ SwitchSaveSettings(s) /\ Stepped(s)
  \/ \E s \in Slots : NoReplyPending /\ SwitchSaveConfiguration(s) /\ Stepped(s)
  \/ \E s \in Slots : handleSwitchProfile(s) /\ Stepped(s)
  \/ \E s \in Slots : NoReplyPending /\ ReloadSettings(s) /\ Stepped(s)
  \/ \E s \in Slots : NoReplyPending /\ ReloadConfig(s) /\ Stepped(s)
  \/ \E s \in Slots : NoReplyPending /\ SaveConfigBackup(s) /\ Stepped(s)
  \/ \E s \in Slots : NoReplyPending /\ SaveConfigWrite(s) /\ Stepped(s)
  \/ \E s \in Slots : NoReplyPending /\ SaveConfigPrefs(s) /\ Stepped(s)
  \/ \E s \in Slots : Return(s) /\ Stepped(s)
  \/ \E s \in Slots : initializeProfiles(s) /\ Stepped(s)
  \/ AllIdle /\ Tick /\ UNCHANGED <<issued, clean, remixed, overlapped>>

SpecOverlap == InitOverlap /\ [][NextOverlap]_vars

\* ================================================================ claims
\* the switch request of slot s has returned success
SwitchDone(s) == op[s].kind = "switch" /\ op[s].pc = "done" /\ op[s].ok
\* the live file at the request's path when the request was issued
PreFile(s) == op[s].pre.files[op[s].path]
\* the text is a JSON object with a server map that has at least one server
HasServers(text) ==
  /\ Parses(text) /\ text.val.t = "obj"
  /\ ReadMs(text.val).k = "map" /\ NumKeys(ReadMs(text.val)) > 0
\* the text is a JSON object whose server map is empty (or is missing and
\* is taken as empty)
HasNoServers(text) ==
  /\ Parses(text) /\ text.val.t = "obj"
  /\ NumKeys(NormalizedMs(text.val)) = 0

\* C1: in a switch, when the live file at the profile's config_path existed,
\* the live file is written only after createBackup has returned success
\* and a backup file holds the content the live file had; a switch whose
\* backup failed has returned failure and the live file, the settings and
\* the snapshots are as they were when the switch was issued.
C1_BackupBeforeWrite ==
  \A s \in Slots : op[s].kind = "switch" =>
    /\ (op[s].wrote # NoFile /\ PreFile(s) # NoFile) =>
         /\ op[s].backedUp
         /\ \E b \in backups : /\ b.path.src = op[s].path
                               /\ b.content = PreFile(s)
    /\ (op[s].err = "Failed to create backup") =>
         /\ op[s].pc = "done" /\ ~op[s].ok
         /\ files = op[s].pre.files
         /\ settings = op[s].pre.settings
         /\ configurations = op[s].pre.configurations

\* a switch has succeeded over a live file that existed and was backed up
C1_Witness ==
  \E s \in Slots : /\ SwitchDone(s) /\ PreFile(s) # NoFile
                   /\ op[s].backedUp /\ op[s].wrote # NoFile
                   /\ files[op[s].path] # PreFile(s)

\* C2: after a successful switch to a profile whose latest snapshot has an
\* empty server map, over a live file that parsed with a non-empty server
\* map, the live file parses and its server map is the one it had before.
C2_MergePreserve ==
  \A s \in Slots :
    (SwitchDone(s) /\ HasNoServers(op[s].text) /\ HasServers(PreFile(s))) =>
      /\ Parses(files[op[s].path])
      /\ ReadMs(files[op[s].path].val) = ReadMs(PreFile(s).val)

\* a switch with an empty stored server map has succeeded over a live file
\* that had servers
C2_Witness ==
  \E s \in Slots : /\ SwitchDone(s) /\ HasServers(PreFile(s))
                   /\ op[s].text = EmptyDocText

\* C3 as stated: after a successful switch to a profile whose latest
\* snapshot has a non-empty server map, the live file holds exactly the
\* text of that snapshot.
C3_ExactSnapshotText ==
  \A s \in Slots :
    (SwitchDone(s) /\ HasServers(op[s].text)) => files[op[s].path] = op[s].text

\* C3, amended: after a successful switch to a profile whose latest
\* snapshot has a non-empty server map, the live file holds that snapshot's
\* JSON value serialized with an indentation of two, whatever the live file
\* held before; it is the snapshot's text when the snapshot already has
\* that layout.
C3_SnapshotReserialized ==
  \A s \in Slots :
    (SwitchDone(s) /\ HasServers(op[s].text)) =>
      /\ files[op[s].path] = JSON_stringify(op[s].text.val, 2)
      /\ op[s].text.fmt = "pretty" => files[op[s].path] = op[s].text

\* a switch with stored servers has succeeded over a live file that had
\* other servers, the snapshot not being in the layout of JSON.stringify
C3_Witness ==
  \E s \in Slots : /\ SwitchDone(s) /\ HasServers(op[s].text)
                   /\ op[s].text.fmt # "pretty"
                   /\ HasServers(PreFile(s))
                   /\ ReadMs(PreFile(s).val) # ReadMs(op[s].text.val)

\* C4: when a switch to profile P has returned success, the settings hold
\* P's config_path and backup_path, and P's client path, or no client path
\* when P has none.
C4_PointerEqualsProfile ==
  \A s \in Slots : SwitchDone(s) =>
    \A p \in getProfile(op[s].id) :
      /\ settings.configPath = p.config_path
      /\ settings.backupPath = p.backup_path
      /\ settings.claudePath =
           IF p.mcp_client_path = "" THEN Unset ELSE p.mcp_client_path

\* a switch to a profile without a client path has succeeded when the
\* settings held a client path
C4_Witness ==
  \E s \in Slots : /\ SwitchDone(s)
                   /\ op[s].pre.settings.claudePath = ClientPath
                   /\ \E p \in getProfile(op[s].id) : p.mcp_client_path = ""

\* C5 as stated: when no request is in flight and every request so far was
\* a switch or an editor save that succeeded, the live file at the selected
\* profile's config_path is that profile's latest snapshot.
C5_Synchronized ==
  (AllIdle /\ clean) =>
    \A p \in getProfile(ui.selectedProfile) :
      getLatestConfiguration(p.id) = {files[p.config_path]}

\* C6 as stated: a successful switch to P has appended exactly one snapshot,
\* to P, holding the text written to the live file, and P's latest
\* configuration is the live file.
C6_SwitchAppendsWrittenText ==
  \A s \in Slots : SwitchDone(s) =>
    /\ configurations =
         Append(op[s].pre.configurations,
                NewConfiguration(lastConfigId, op[s].id, op[s].wrote, now))
    /\ op[s].wrote = files[op[s].path]
    /\ getLatestConfiguration(op[s].id) = {files[op[s].path]}

\* C7 as stated: when a switch has returned failure, the settings are the
\* ones held when the switch was issued.
C7_FailedSwitchKeepsPointer ==
  \A s \in Slots :
    (op[s].kind = "switch" /\ op[s].pc = "done" /\ ~op[s].ok) =>
      settings = op[s].pre.settings

\* C8 as stated: when save-config has returned for a target file that
\* existed and whose backup was not created, it has returned failure and
\* the target file holds what it held before.
C8_SaveAbortsWithoutBackup ==
  \A s \in Slots :
    (/\ op[s].kind \in {"rawsave", "editsave"} /\ op[s].pc = "done"
     /\ op[s].path # NoPath /\ ValidationError(op[s].text) = ""
     /\ PreFile(s) # NoFile /\ ~op[s].backedUp) =>
      /\ ~op[s].ok
      /\ files[op[s].path] = PreFile(s)

\* C9 as stated: when a raw save of text t has returned success (no call
\* it made having failed) while profile P is selected and the editor is on
\* P's config_path, exactly one snapshot was appended, with content t, and
\* it belongs to P.
C9_RawSaveSnapshotsActiveProfile ==
  \A s \in Slots :
    (/\ op[s].kind = "rawsave" /\ op[s].pc = "done" /\ op[s].ok
     /\ op[s].err = ""
     /\ \E p \in getProfile(ui.selectedProfile) :
          p.config_path = ui.configPath /\ p.config_path = op[s].path) =>
      configurations =
        Append(op[s].pre.configurations,
               NewConfiguration(lastConfigId, ui.selectedProfile, op[s].text, now))

\* C10 as stated: a raw save of a text that does not parse, or whose value
\* is not an object with an object-valued server map, is rejected: it
\* returns failure, creates no backup, does not write the target file and
\* appends no snapshot.
C10_RawSaveRejectsInvalid ==
  \A s \in Slots :
    (/\ op[s].kind = "rawsave"
     /\ ~(/\ Parses(op[s].text) /\ op[s].text.val.t = "obj"
          /\ ReadMs(op[s].text.val).k = "map")) =>
      /\ op[s].pc = "done" /\ ~op[s].ok
      /\ files = op[s].pre.files
      /\ backups = op[s].pre.backups
      /\ configurations = op[s].pre.configurations

\* the latest snapshots of a profile among the given rows, as
\* getLatestConfiguration computes them
LatestIn(rows, profileId) ==
  {rows[i].content : i \in
     {j \in 1..Len(rows) :
        /\ rows[j].profile_id = profileId
        /\ \A k \in 1..Len(rows) :
             rows[k].profile_id = profileId =>
               rows[k].created_at <= rows[j].created_at}}
\* the ids of the given profile rows
IdsOf(rows) == {p.id : p \in rows}

\* C11 as stated: no backup file is overwritten or changed: every backup
\* file that existed when a request was issued still exists with the
\* content it had, whatever backups the request has created, also within
\* the same second.
C11_BackupsNeverOverwritten ==
  \A s \in Slots : op[s].pc # "idle" =>
    \A b \in op[s].pre.backups : b \in backups

\* C12: no two profiles have the same name; a create-profile or a remix
\* whose name was already taken has failed, with the profiles and the
\* snapshots as they were when it was issued.
C12_UniqueNames ==
  /\ \A p, q \in profiles : p.name = q.name => p = q
  /\ \A s \in Slots :
       (/\ op[s].kind \in {"create", "remix"} /\ op[s].pc = "done"
        /\ NameTaken(op[s].pre.profiles, op[s].name)) =>
         /\ ~op[s].ok
         /\ profiles = op[s].pre.profiles
         /\ configurations = op[s].pre.configurations

\* a remix of an existing profile that has a snapshot, under a name that
\* is taken, has returned
C12_Witness ==
  \E s \in Slots :
    /\ op[s].kind = "remix" /\ op[s].pc = "done"
    /\ NameTaken(op[s].pre.profiles, op[s].name)
    /\ op[s].id \in IdsOf(op[s].pre.profiles)
    /\ LatestIn(op[s].pre.configurations, op[s].id) # {}

\* C13: when deleteProfile(id) has run, getProfile(id) finds nothing and
\* getLatestConfiguration(id) returns none, and the other profiles and
\* their snapshots are what they were.
C13_DeleteCascades ==
  \A s \in Slots : (op[s].kind = "delete" /\ op[s].pc = "done") =>
    /\ getProfile(op[s].id) = {}
    /\ getLatestConfiguration(op[s].id) = {}
    /\ \A c \in 1..Len(configurations) : configurations[c].profile_id # op[s].id
    /\ profiles = {p \in op[s].pre.profiles : p.id # op[s].id}
    /\ configurations =
         SelectSeq(op[s].pre.configurations, LAMBDA c : c.profile_id # op[s].id)

\* a profile that had a snapshot has been deleted while another profile
\* had snapshots too
C13_Witness ==
  \E s \in Slots :
    /\ op[s].kind = "delete" /\ op[s].pc = "done"
    /\ LatestIn(op[s].pre.configurations, op[s].id) # {}
    /\ \E p \in profiles : getLatestConfiguration(p.id) # {}

\* the request of slot s is a save, a switch or a deletion on profile a:
\* switch-profile, save-profile or delete-profile with a's id, or a raw
\* save while a is the selected profile and the editor is on its file
OnProfile(s, a) ==
  \/ op[s].kind \in {"switch", "saveprofile", "delete"} /\ op[s].id = a
  \/ /\ op[s].kind = "rawsave" /\ ui.selectedProfile = a
     /\ \E p \in op[s].pre.profiles :
          p.id = a /\ p.config_path = ui.configPath /\ p.config_path = op[s].path

\* C14 as stated: a successful remix of A into B has created B with A's
\* three paths and one snapshot, B's, holding a latest snapshot of A; and
\* for every remix of A into B, a save, switch or deletion on A leaves B's
\* latest snapshot as it was when the operation was issued, and one on B
\* leaves A's.
C14_RemixIsIndependentClone ==
  /\ \A s \in Slots : (op[s].kind = "remix" /\ op[s].pc = "done" /\ op[s].ok) =>
       \E a \in op[s].pre.profiles, b \in profiles \ op[s].pre.profiles :
         /\ a.id = op[s].id /\ b.id = lastProfileId /\ b.name = op[s].name
         /\ b.config_path = a.config_path
         /\ b.backup_path = a.backup_path
         /\ b.mcp_client_path = a.mcp_client_path
         /\ \E c \in LatestIn(op[s].pre.configurations, a.id) :
              configurations =
                Append(op[s].pre.configurations,
                       NewConfiguration(lastConfigId, b.id, c, now))
  /\ \A s \in Slots, pair \in remixed :
       /\ OnProfile(s, pair[1]) =>
            LatestIn(configurations, pair[2]) =
              LatestIn(op[s].pre.configurations, pair[2])
       /\ OnProfile(s, pair[2]) =>
            LatestIn(configurations, pair[1]) =
              LatestIn(op[s].pre.configurations, pair[1])

\* the content passed to the most recent saveConfiguration call for the
\* profile: its row with the greatest rowid
MostRecentSave(profileId) ==
  configurations[CHOOSE i \in ConfigurationsOf(profileId) :
                   \A j \in ConfigurationsOf(profileId) : j <= i].content

\* C15 as stated: for every profile that has snapshots,
\* getLatestConfiguration returns the content passed to the most recent
\* saveConfiguration call for it, also when saves carry the same created_at.
C15_LatestIsMostRecentSave ==
  \A p \in profiles :
    ConfigurationsOf(p.id) # {} =>
      getLatestConfiguration(p.id) = {MostRecentSave(p.id)}

\* C16: snapshots are append-only: in every step, the snapshots whose
\* profile still exists afterwards are all still there, unchanged and in
\* the same order, before any new one; a snapshot goes away only with its
\* profile.
C16_AppendOnly ==
  [][LET kept == SelectSeq(configurations,
                           LAMBDA c : \E p \in profiles' : p.id = c.profile_id)
     IN /\ Len(configurations') >= Len(kept)
        /\ SubSeq(configurations', 1, Len(kept)) = kept]_vars

\* a profile has been deleted with its snapshots while snapshots of another
\* profile, one of them appended after the bootstrap, remain
C16_Witness ==
  \E s \in Slots :
    /\ op[s].kind = "delete" /\ op[s].pc = "done"
    /\ Len(configurations) < Len(op[s].pre.configurations)
    /\ \E i \in 1..Len(configurations) : configurations[i].id > 1

C17_WitnessExisting ==
  \E s \in Slots : /\ op[s].kind = "start" /\ op[s].pc = "done"
                   /\ Cardinality(op[s].pre.profiles) = 2

\* C18: a switch to an id that named no profile, or to a profile that had
\* no snapshot, has returned failure, and the live files, the backups, the
\* settings and the snapshots are as they were when it was issued.
C18_SwitchToNothingChangesNothing ==
  \A s \in Slots :
    (/\ op[s].kind = "switch"
     /\ \/ op[s].id \notin IdsOf(op[s].pre.profiles)
        \/ LatestIn(op[s].pre.configurations, op[s].id) = {}) =>
      /\ op[s].pc = "done" /\ ~op[s].ok
      /\ files = op[s].pre.files
      /\ backups = op[s].pre.backups
      /\ settings = op[s].pre.settings
      /\ configurations = op[s].pre.configurations

\* a switch to an existing profile that has no snapshot has returned
C18_Witness ==
  \E s \in Slots :
    /\ op[s].kind = "switch" /\ op[s].pc = "done"
    /\ op[s].id \in IdsOf(op[s].pre.profiles)
    /\ LatestIn(op[s].pre.configurations, op[s].id) = {}

\* a switch to an id that names no profile has returned
C18_WitnessNoProfile ==
  \E s \in Slots :
    /\ op[s].kind = "switch" /\ op[s].pc = "done"
    /\ op[s].id \notin IdsOf(op[s].pre.profiles)

\* C19 as stated: a switch that has loaded a snapshot which does not
\* parse, or parses to a value that is not an object, has returned failure,
\* and the live files, the backups and the settings are as they were when
\* it was issued.
C19_CorruptSnapshotRejected ==
  \A s \in Slots :
    (/\ op[s].kind = "switch" /\ op[s].text # NoFile
     /\ ~(Parses(op[s].text) /\ op[s].text.val.t = "obj")) =>
      /\ op[s].pc = "done" /\ ~op[s].ok
      /\ files = op[s].pre.files
      /\ backups = op[s].pre.backups
      /\ settings = op[s].pre.settings

\* C20: a remix whose source id named no profile, or whose source had no
\* snapshot, has returned failure, and the profiles and the snapshots are
\* as they were when it was issued.
C20_RemixOfNothingCreatesNothing ==
  \A s \in Slots :
    (/\ op[s].kind = "remix"
     /\ \/ op[s].id \notin IdsOf(op[s].pre.profiles)
        \/ LatestIn(op[s].pre.configurations, op[s].id) = {}) =>
      /\ op[s].pc = "done" /\ ~op[s].ok
      /\ profiles = op[s].pre.profiles
      /\ configurations = op[s].pre.configurations

\* a remix of an existing profile that has no snapshot, under a free name,
\* has returned
C20_Witness ==
  \E s \in Slots :
    /\ op[s].kind = "remix" /\ op[s].pc = "done"
    /\ op[s].id \in IdsOf(op[s].pre.profiles)
    /\ LatestIn(op[s].pre.configurations, op[s].id) = {}
    /\ ~NameTaken(op[s].pre.profiles, op[s].name)

\* a remix of an id that names no profile has returned
C20_WitnessNoSource ==
  \E s \in Slots :
    /\ op[s].kind = "remix" /\ op[s].pc = "done"
    /\ op[s].id \notin IdsOf(op[s].pre.profiles)

\* the text is a document with an empty server map
IsEmptyDocument(text) ==
  /\ Parses(text) /\ text.val.t = "obj" /\ ReadMs(text.val) = MsMap({})

\* C21 as stated: when a create-profile for configPath has succeeded, the
\* new profile has exactly one snapshot, appended by the request: the
\* content found at configPath when that parses and has a non-empty server
\* map, and an empty document in every other case.
C21_CreateSeedsFromLiveFile ==
  \A s \in Slots :
    (op[s].kind = "create" /\ op[s].pc = "done" /\ op[s].ok) =>
      /\ Len(configurations) = Len(op[s].pre.configurations) + 1
      /\ SubSeq(configurations, 1, Len(op[s].pre.configurations)) =
           op[s].pre.configurations
      /\ LET first == configurations[Len(configurations)] IN
         /\ first.profile_id = op[s].id
         /\ IF HasServers(PreFile(s)) THEN first.content = PreFile(s)
            ELSE IsEmptyDocument(first.content)

\* C22: when a save-settings call with some of the three fields has
\* succeeded, each field it supplied holds the supplied value and each
\* field it did not supply holds the value it had when the call was issued.
C22_PartialUpdate ==
  \A s \in Slots :
    (op[s].kind = "savesettings" /\ op[s].pc = "done" /\ op[s].ok) =>
      \A f \in SettingsFields :
        settings[f] = IF op[s].given[f] = Absent THEN op[s].pre.settings[f]
                      ELSE op[s].given[f]

\* a save-settings call that supplied the backup path alone has succeeded
\* when the other two fields had been set to other values than the defaults
C22_Witness ==
  \E s \in Slots :
    /\ op[s].kind = "savesettings" /\ op[s].pc = "done" /\ op[s].ok
    /\ op[s].given.configPath = Absent /\ op[s].given.claudePath = Absent
    /\ op[s].given.backupPath # Absent
    /\ op[s].pre.settings.configPath = OtherConfigPath
    /\ op[s].pre.settings.claudePath = ClientPath
    /\ op[s].pre.settings.backupPath # op[s].given.backupPath

\* the backup file a createBackup call of the request of slot s writes:
\* the directory is the one of the settings the request started with
BackupOf(s) ==
  BackupFilePath(IF op[s].pre.settings.backupPath \in {"", Unset}
                 THEN DEFAULT_BACKUP_PATH ELSE op[s].pre.settings.backupPath,
                 op[s].path, now)

\* C23: when a request has made a successful backup of a source path, a
\* backup file holds the content the source had at that call, and every
\* backup of the same source made in another second into the same
\* directory is another file, still there with the content it had.
C23_DistinctSeconds ==
  \A s \in Slots : op[s].backedUp =>
    /\ [path |-> BackupOf(s), content |-> PreFile(s)] \in backups
    /\ \A b \in op[s].pre.backups :
         (/\ b.path.dir = BackupOf(s).dir /\ b.path.src = BackupOf(s).src
          /\ b.path.sec # BackupOf(s).sec) =>
           /\ b.path # BackupOf(s)
           /\ b \in backups

\* a second backup of a source has been made, in a later second and into
\* the same directory as the first, after the source had changed
C23_Witness ==
  \E s \in Slots :
    /\ op[s].backedUp
    /\ \E b \in op[s].pre.backups :
         /\ b.path.dir = BackupOf(s).dir /\ b.path.src = BackupOf(s).src
         /\ b.path.sec # BackupOf(s).sec
         /\ b.content # PreFile(s)

\* C24: at every point of a switch, while the switch has not written the
\* live file the settings are the ones held when it was issued (so they
\* are when it fails or stops before or during the write); when the
\* settings have changed, the live file holds what the switch wrote.
C24_PointerAfterFile ==
  \A s \in Slots : op[s].kind = "switch" =>
    /\ op[s].wrote = NoFile => settings = op[s].pre.settings
    /\ settings # op[s].pre.settings =>
         /\ op[s].wrote # NoFile
         /\ files[op[s].path] = op[s].wrote

\* a switch that would have changed the settings has failed at the write
\* of the live file
C24_Witness ==
  \E s \in Slots :
    /\ op[s].kind = "switch" /\ op[s].pc = "done" /\ ~op[s].ok
    /\ op[s].err = "write failed"
    /\ Spread(settings, SwitchSettings(op[s].profile)) # settings

\* a switch has changed the settings
C24_WitnessWritten ==
  \E s \in Slots :
    /\ op[s].kind = "switch" /\ settings # op[s].pre.settings

\* C25 as stated: no two switch-profile or save-config handlers that
\* target the same live file path are running at the same time.
C25_OnePerPath ==
  \A s, t \in Slots :
    (s # t /\ InFlight(s) /\ InFlight(t)) => op[s].path # op[t].path

\* C26 as stated: when two switch requests for different profiles were
\* issued without waiting for each other and both have succeeded and
\* completed, the settings hold the three paths of one profile, the live
\* file at the settings' configPath holds that profile's latest snapshot,
\* and that profile is the one selected in the UI.
C26_OverlappingSwitchesAgree ==
  (/\ AllIdle /\ clean /\ issued = 2
   /\ \E pair \in overlapped : pair[1] # pair[2]) =>
    \E p \in profiles :
      /\ ui.selectedProfile = p.id
      /\ settings.configPath = p.config_path
      /\ settings.backupPath = p.backup_path
      /\ settings.claudePath =
           IF p.mcp_client_path = "" THEN Unset ELSE p.mcp_client_path
      /\ files[settings.configPath] = MostRecentSave(p.id)

\* the errors of a switch that come from the stored snapshot or from a
\* write that failed
SwitchErrors ==
  {"Invalid configuration format", "TypeError", "Failed to create backup",
   "write failed", "settings write failed", "preferences write failed",
   "store write failed"}

\* C27: a switch to a profile with a snapshot, over a live file that
\* exists and does not parse, does not fail because of that file (it fails
\* only on its snapshot or on a write that fails); once it is past the
\* backup, a backup holds the unparsable content unchanged and the servers
\* it goes on with are the snapshot's own; once it has written, the live
\* file holds the snapshot as the switch serializes it.
C27_UnparsableLiveFile ==
  \A s \in Slots :
    (/\ op[s].kind = "switch" /\ op[s].text # NoFile
     /\ PreFile(s) # NoFile /\ ~Parses(PreFile(s))) =>
      /\ Failed(op[s]) => op[s].err \in SwitchErrors
      /\ op[s].pc \in {"merge", "write", "settings", "prefs"} \/ op[s].ok =>
           /\ op[s].backedUp
           /\ [path |-> BackupOf(s), content |-> PreFile(s)] \in backups
           /\ op[s].ms = NormalizedMs(op[s].text.val)
      /\ op[s].wrote # NoFile =>
           files[op[s].path] =
             FinalContent(op[s].text.val, NormalizedMs(op[s].text.val))
      /\ op[s].pc = "done" /\ op[s].ok => op[s].wrote # NoFile

\* a switch to a profile whose snapshot has no servers has succeeded over
\* a live file that did not parse
C27_Witness ==
  \E s \in Slots :
    /\ SwitchDone(s) /\ PreFile(s) = BadText
    /\ HasNoServers(op[s].text)
    /\ Parses(files[op[s].path])

\* C28 as stated: when the saveConfiguration call at the end of a switch
\* has failed after the live file was written, the live file keeps what the
\* switch wrote and the switch has returned success (with a warning).
C28_AppendFailureIsWarning ==
  \A s \in Slots :
    (/\ op[s].kind = "switch" /\ op[s].pc = "done"
     /\ op[s].wrote # NoFile /\ op[s].err = "store write failed") =>
      /\ files[op[s].path] = op[s].wrote
      /\ op[s].ok

\* C29 as stated: after every successful switch the live file parses to a
\* JSON object whose mcpServers member is present and is an object (a
\* map); and a switch whose snapshot is a JSON object with mcpServers
\* absent or not a map is not rejected for it, and goes on with an empty
\* map.
C29_ServerMapAlwaysPresent ==
  \A s \in Slots :
    /\ SwitchDone(s) =>
         /\ Parses(files[op[s].path])
         /\ files[op[s].path].val.t = "obj"
         /\ ReadMs(files[op[s].path].val).k = "map"
    /\ (/\ op[s].kind = "switch" /\ Parses(op[s].text)
        /\ op[s].text.val.t = "obj" /\ ReadMs(op[s].text.val).k # "map") =>
         /\ Failed(op[s]) => op[s].err \in SwitchErrors \ {"Invalid configuration format", "TypeError"}
         /\ op[s].pc \in {"backup", "merge"} => op[s].ms = MsMap({})

\* C30 as stated: whenever no create-profile and no remix is in flight,
\* every profile in the store has at least one snapshot.
C30_EveryProfileHasSnapshot ==
  (\A s \in Slots :
     op[s].kind \in {"create", "remix"} => op[s].pc \in {"idle", "done"}) =>
    \A p \in profiles : ConfigurationsOf(p.id) # {}

\* C31: when a request has made a backup, the backup file is in the
\* directory the settings named when createBackup was called (the default
\* directory when they named none), which is the directory they named when
\* the request was issued: every backup file the request has added is
\* there, so in a switch to a profile with another backup_path none is in
\* the profile's own directory.
C31_BackupGoesToPointerDir ==
  \A s \in Slots : op[s].backedUp =>
    /\ \E b \in backups : b.path = BackupOf(s)
    /\ \A b \in backups \ op[s].pre.backups :
         /\ b.path.dir = BackupOf(s).dir
         /\ (op[s].kind = "switch"
             /\ op[s].profile.backup_path # BackupOf(s).dir) =>
              b.path.dir # op[s].profile.backup_path

\* a switch has succeeded with a backup while the settings named another
\* backup directory than the profile's and than the default one
C31_Witness ==
  \E s \in Slots :
    /\ SwitchDone(s) /\ op[s].backedUp
    /\ op[s].profile.backup_path # BackupOf(s).dir
    /\ BackupOf(s).dir # DEFAULT_BACKUP_PATH
    /\ backups # op[s].pre.backups

\* C32: when delete-profile has run, the settings, every live file and
\* every backup file are what they were when it was issued, also when the
\* settings name the paths of the deleted profile.
C32_DeleteTouchesStoreOnly ==
  \A s \in Slots : (op[s].kind = "delete" /\ op[s].pc = "done") =>
    /\ settings = op[s].pre.settings
    /\ files = op[s].pre.files
    /\ backups = op[s].pre.backups

\* the profile that was selected by a switch, and whose paths the settings
\* hold, has been deleted, and no remaining profile has those paths
C32_Witness ==
  \E s \in Slots :
    /\ op[s].kind = "delete" /\ op[s].pc = "done"
    /\ ui.selectedProfile = op[s].id
    /\ \E p \in op[s].pre.profiles :
         /\ p.id = op[s].id
         /\ settings.configPath = p.config_path
         /\ settings.backupPath = p.backup_path
    /\ settings # DefaultSettings
    /\ \A q \in profiles : q.backup_path # settings.backupPath
    /\ op[s].pre.backups # {}

\* C33: every snapshot's profile_id names an existing profile; a
\* save-profile for an id that names no profile (never created, or deleted)
\* has returned failure and the snapshots are as they were when it was
\* issued; and a row inserted into profiles gets an id above every id
\* given before, so that the id of a deleted profile is never given again.
C33_ReferentialIntegrity ==
  /\ [](/\ \A i \in 1..Len(configurations) :
             getProfile(configurations[i].profile_id) # {}
        /\ \A p \in profiles : p.id <= lastProfileId
        /\ \A s \in Slots :
             (/\ op[s].kind = "saveprofile"
              /\ op[s].id \notin IdsOf(op[s].pre.profiles)) =>
               /\ op[s].pc = "done" /\ ~op[s].ok
               /\ configurations = op[s].pre.configurations)
  /\ [][/\ lastProfileId' >= lastProfileId
        /\ \A p \in profiles' :
             p.id \notin IdsOf(profiles) => p.id > lastProfileId]_vars

\* a save-profile for the id of a deleted profile has returned
C33_Witness ==
  \E s \in Slots :
    /\ op[s].kind = "saveprofile" /\ op[s].pc = "done"
    /\ op[s].id <= lastProfileId
    /\ op[s].id \notin IdsOf(op[s].pre.profiles)

\* a profile has been created when the only profile there was had been
\* deleted
C33_WitnessNewId ==
  \E s \in Slots :
    /\ op[s].kind = "create" /\ op[s].pc = "done" /\ op[s].ok
    /\ op[s].pre.profiles = {}
    /\ \E p \in profiles : p.id = lastProfileId /\ p.id > 1

\* The renderer mounts ProfileManager whenever the application starts and
\* React runs its effect: initializeProfiles is not put off for ever.
SpecStart ==
  Init /\ [][Next]_vars
       /\ WF_vars(\E s \in Slots : initializeProfiles(s) /\ Stepped(s))

\* the rows that ORDER BY created_at DESC may put first
NewestIn(rows) == {p \in rows : \A q \in rows : q.created_at <= p.created_at}

\* the switch of slot s is the one initializeProfiles issued
AutoSwitch(s) == op[s].kind = "switch" /\ op[s].auto

\* C34: when the application has started with at least one profile in the
\* store, a switch follows that no user request has asked for; it is a
\* switch to a profile that getAllProfiles puts first (none was created
\* later), whatever the settings held; and when it has returned success
\* the settings hold that profile's paths and the live file at its
\* config_path holds what the switch wrote.
C34_StartSwitchesToFirst ==
  /\ \A s \in Slots : (Started(s) /\ profiles # {}) ~> AutoSwitch(s)
  /\ [](\A s \in Slots : AutoSwitch(s) =>
          op[s].id \in IdsOf(NewestIn(op[s].pre.profiles)))
  /\ [](\A s \in Slots : (AutoSwitch(s) /\ SwitchDone(s)) =>
          /\ settings.configPath = op[s].profile.config_path
          /\ settings.backupPath = op[s].profile.backup_path
          /\ settings.claudePath =
               IF op[s].profile.mcp_client_path = "" THEN Unset
               ELSE op[s].profile.mcp_client_path
          /\ op[s].wrote # NoFile
          /\ files[op[s].profile.config_path] = op[s].wrote)

\* the application has been started again after a run whose switch to the
\* first profile wrote a snapshot, and the switch of this start has
\* succeeded for a profile created later
C34_Witness ==
  \E s \in Slots :
    /\ AutoSwitch(s) /\ SwitchDone(s)
    /\ op[s].id # 1
    /\ \E p \in op[s].pre.profiles : p.created_at < op[s].profile.created_at
    /\ \E i \in ConfigurationsOf(1) : configurations[i].id > 1

====
